---- MODULE Spec2Model ----
(***************************************************************************)
(* ChillMCP (src/main.py): the shared gauge state ChillMCPState and its    *)
(* one operation perform_break, run by concurrent asyncio tasks.           *)
(*                                                                         *)
(* Time is time.monotonic() in whole seconds.  Every statement group of    *)
(* perform_break is one action, so that the asyncio.Lock, and not the      *)
(* granularity of the model, is what keeps the calls apart.  A call that   *)
(* has returned leaves nothing behind but the gauges: its locals are       *)
(* dropped, and properties of a finished call are stated on the step that  *)
(* finishes it.                                                            *)
(***************************************************************************)
EXTENDS Integers, Sequences, FiniteSets, TLC

(* ------------------------------------------------------------ bounds -- *)
\* number of tasks that issue tool calls, each one call after another
NumCalls == 2
\* how far the monotonic clock runs while the tasks call concurrently, and how far
\* beside the long idle period for the single caller, in steps of 20 seconds
MaxConcTicks == 3
MaxTicks == 6

(* ------------------------------------------------- program constants -- *)
stress_growth_interval == 60
max_stress == 100
max_boss_alert == 5
boss_alert_delay == 20
InitialStress == 60
InitialAlert == 0
\* for i in range(6) of the test client's test_boss_alert_max_delay
RunLength == 6

(* ------------------------------------------------------------ inputs -- *)
Calls == 1..NumCalls
NoCall == 0
\* --boss_alertness and --boss_alertness_cooldown values accepted by parse_args
Alertness == {0, 50, 100}
Cooldowns == {40, 300}
\* amounts of time that pass between steps
Gaps == {20, 40}
ConcHorizon == MaxConcTicks * 20
Horizon == MaxTicks * 20
\* a single caller may also stay away for fifty minutes, once
LongIdle == 50 * stress_growth_interval
\* --boss_alertness and --boss_alertness_cooldown values as typed, which parse_args
\* has yet to look at: the defaults 50 and 300, the ends of the range, values beyond
ArgAlertness == {-5, 0, 50, 100, 101}
ArgCooldowns == {-5, 0, 40, 300}
\* the value of a field of an object that does not exist (yet)
NoValue == -1
\* outcomes of random.randint(1, 100): the ends and both sides of P = 50
Rolls == {1, 50, 51, 100}

TOOL_PROFILES ==
    [take_a_break     |-> [min_relief |-> 12, max_relief |-> 28],
     watch_netflix    |-> [min_relief |-> 18, max_relief |-> 35],
     show_meme        |-> [min_relief |-> 10, max_relief |-> 22],
     bathroom_break   |-> [min_relief |-> 20, max_relief |-> 40],
     coffee_mission   |-> [min_relief |-> 16, max_relief |-> 32],
     urgent_call      |-> [min_relief |-> 22, max_relief |-> 38],
     deep_thinking    |-> [min_relief |-> 14, max_relief |-> 27],
     email_organizing |-> [min_relief |-> 11, max_relief |-> 24]]

\* the tool the concurrent tasks call, and the tools the single caller calls
ToolNames == {"take_a_break"}
SeqToolNames == {"take_a_break", "bathroom_break"}
\* a name that is not a key of TOOL_PROFILES
UnknownNames == {"nap"}

NoProfile == [min_relief |-> NoValue, max_relief |-> NoValue]
\* variant: TOOL_PROFILES.get(name, TOOL_PROFILES["take_a_break"])
ProfileOrDefault(name) ==
    [found |-> TRUE,
     profile |-> IF name \in DOMAIN TOOL_PROFILES THEN TOOL_PROFILES[name]
                 ELSE TOOL_PROFILES["take_a_break"]]
\* TOOL_PROFILES[name]: the profile, or KeyError (found = FALSE)
ProfileOf(name) ==
    IF name \in DOMAIN TOOL_PROFILES
    THEN [found |-> TRUE, profile |-> TOOL_PROFILES[name]]
    ELSE [found |-> FALSE, profile |-> NoProfile]

\* variant: random.randint(0, max_relief)
ReliefDrawsFromZero(profile) == {0, profile.max_relief}
\* outcomes of random.randint(min_relief, max_relief): both ends
ReliefDraws(profile) == {profile.min_relief, profile.max_relief}

VARIABLES
    boss_alertness,            \* ChillMCPState.boss_alertness
    boss_alertness_cooldown,   \* ChillMCPState.boss_alertness_cooldown
    stress_level,              \* ChillMCPState.stress_level
    boss_alert_level,          \* ChillMCPState.boss_alert_level
    last_stress_update,        \* ChillMCPState.last_stress_update
    last_boss_cooldown_check,  \* ChillMCPState.last_boss_cooldown_check
    holder,                    \* the task inside "async with self._lock", or NoCall
    waiters,                   \* asyncio.Lock's FIFO queue of suspended acquirers
    clock,                     \* time.monotonic()
    pc,                        \* each task's position in perform_break
    loc,                       \* each task's local variables in perform_break
    committed,                 \* the gauges as the last critical section that ran
                               \* to its end left them
    prev_now,                  \* the clock value the latest call captured, -1 if none
    ticks_reported,            \* the growth ticks all calls so far have reported, added up
    calls_issued,              \* how many calls the test client's loop has issued
    main                       \* main(): where it is, its args, how the process exited

vars == <<boss_alertness, boss_alertness_cooldown, stress_level, boss_alert_level,
          last_stress_update, last_boss_cooldown_check, holder, waiters, clock,
          pc, loc, committed, prev_now, ticks_reported, calls_issued, main>>

\* what is settled once the server runs
config == <<boss_alertness, boss_alertness_cooldown, main>>
gauges == <<stress_level, boss_alert_level, last_stress_update, last_boss_cooldown_check>>
lock == <<holder, waiters>>
\* what the calls so far have left behind for the properties to look at
history == <<committed, prev_now, ticks_reported>>

Min(a, b) == IF a <= b THEN a ELSE b
Max(a, b) == IF a >= b THEN a ELSE b

\* positions at which a task is inside the critical section
InCS == {"growth", "cooldown", "relief", "trigger"}

Gauges == [stress |-> stress_level, alert |-> boss_alert_level,
           stress_anchor |-> last_stress_update,
           cooldown_anchor |-> last_boss_cooldown_check]

\* the locals of a call that has just been dispatched
NewLocals(name) ==
    [tool |-> name, start |-> clock, now |-> -1, gap |-> -1, carry |-> -1,
     stress_in |-> -1, alert_in |-> -1,
     stress_growth |-> 0, cooldown_steps |-> 0, relief |-> 0,
     previous_stress |-> -1, boss_alert_triggered |-> FALSE,
     current_stress |-> -1, current_boss |-> -1, delay_required |-> FALSE,
     relief_applied |-> 0, wake |-> -1, error |-> "none", response |-> <<>>]

NoLocals == [NewLocals("none") EXCEPT !.start = -1]

\* argparse's namespace
Args(alertness, cooldown) ==
    [boss_alertness |-> alertness, boss_alertness_cooldown |-> cooldown]
\* the process has not exited
NoExit == [status |-> NoValue, message |-> ""]

\* the server is up: main() has parsed its arguments, has created SERVER_STATE and
\* is in mcp.run()
Init ==
    /\ boss_alertness \in Alertness
    /\ boss_alertness_cooldown \in Cooldowns
    /\ stress_level = InitialStress
    /\ boss_alert_level = InitialAlert
    /\ last_stress_update = 0
    /\ last_boss_cooldown_check = 0
    /\ holder = NoCall
    /\ waiters = <<>>
    /\ clock = 0
    /\ pc = [p \in Calls |-> "idle"]
    /\ loc = [p \in Calls |-> NoLocals]
    /\ committed = [stress |-> InitialStress, alert |-> InitialAlert,
                    stress_anchor |-> 0, cooldown_anchor |-> 0]
    /\ prev_now = -1
    /\ ticks_reported = 0
    /\ calls_issued = 0
    /\ main = [at |-> "run", args |-> Args(boss_alertness, boss_alertness_cooldown),
               exit |-> NoExit]

(* ------------------------------------------------ parse_args, main -- *)
\* SERVER_STATE is None and nobody calls; what comes next is the step named
Unstarted(at) ==
    /\ main \in {[at |-> at, args |-> Args(a, c), exit |-> NoExit] :
                    a \in ArgAlertness, c \in ArgCooldowns}
    /\ boss_alertness = NoValue
    /\ boss_alertness_cooldown = NoValue
    /\ stress_level = NoValue
    /\ boss_alert_level = NoValue
    /\ last_stress_update = NoValue
    /\ last_boss_cooldown_check = NoValue
    /\ holder = NoCall
    /\ waiters = <<>>
    /\ clock = 0
    /\ pc = [p \in Calls |-> "idle"]
    /\ loc = [p \in Calls |-> NoLocals]
    /\ committed = [stress |-> NoValue, alert |-> NoValue,
                    stress_anchor |-> NoValue, cooldown_anchor |-> NoValue]
    /\ prev_now = -1
    /\ ticks_reported = 0
    /\ calls_issued = 0

\* the process has just been started: main() is about to parse its arguments
InitMain == Unstarted("parse_args")

\* a user of the class who builds ChillMCPState with values of their own choosing
InitDirect == Unstarted("construct")

\* variant: the ends of the range are turned away
ParseArgsOpenRange(args) ==
    IF ~(0 < args.boss_alertness /\ args.boss_alertness < 100)
    THEN [ok |-> FALSE, message |-> "--boss_alertness must be within 0-100."]
    ELSE IF args.boss_alertness_cooldown <= 0
    THEN [ok |-> FALSE, message |-> "--boss_alertness_cooldown must be greater than 0."]
    ELSE [ok |-> TRUE, message |-> ""]

\* the two checks of parse_args: raise SystemExit(message), or return args
ParseArgsChecks(args) ==
    IF ~(0 <= args.boss_alertness /\ args.boss_alertness <= 100)
    THEN [ok |-> FALSE, message |-> "--boss_alertness must be within 0-100."]
    ELSE IF args.boss_alertness_cooldown <= 0
    THEN [ok |-> FALSE, message |-> "--boss_alertness_cooldown must be greater than 0."]
    ELSE [ok |-> TRUE, message |-> ""]

\* args = parse_args(); SystemExit with a message ends the process with status 1
ParseArgs ==
    /\ main.at = "parse_args"
    /\ LET checked == ParseArgsChecks(main.args)
       IN  main' = IF checked.ok
                   THEN [main EXCEPT !.at = "construct"]
                   ELSE [main EXCEPT !.at = "exit",
                                     !.exit = [status |-> 1, message |-> checked.message]]
    /\ UNCHANGED <<boss_alertness, boss_alertness_cooldown, gauges, lock, clock, pc,
                   loc, history, calls_issued>>

\* SERVER_STATE = ChillMCPState(boss_alertness=..., boss_alertness_cooldown=...);
\* the dataclass takes what it is given and sets the defaults; then mcp.run()
Construct ==
    /\ main.at = "construct"
    /\ boss_alertness' = main.args.boss_alertness
    /\ boss_alertness_cooldown' = main.args.boss_alertness_cooldown
    /\ stress_level' = InitialStress
    /\ boss_alert_level' = InitialAlert
    /\ last_stress_update' = clock
    /\ last_boss_cooldown_check' = clock
    /\ committed' = [stress |-> InitialStress, alert |-> InitialAlert,
                     stress_anchor |-> clock, cooldown_anchor |-> clock]
    /\ main' = [main EXCEPT !.at = "run"]
    /\ UNCHANGED <<lock, clock, pc, loc, prev_now, ticks_reported, calls_issued>>

(* ------------------------------------------------------- time passes -- *)
\* the critical section has no suspension point and reads the clock once, on
\* entry: time is taken to pass between critical sections
Advance(d) ==
    /\ holder = NoCall
    /\ clock' = clock + d
    /\ UNCHANGED <<config, gauges, lock, pc, loc, history, calls_issued>>

(* ------------------- _run_tool dispatch and "async with self._lock" -- *)
\* variant: the lock is taken whether or not it is free
LockFreeAlways == TRUE
\* asyncio.Lock.acquire takes the lock at once only if it is free and nobody queues
LockFree == holder = NoCall /\ waiters = <<>>

\* profile = TOOL_PROFILES[name]; perform_break runs up to the lock
Dispatch(p, name) ==
    /\ pc[p] = "idle"
    /\ loc' = [loc EXCEPT ![p] = NewLocals(name)]
    /\ IF LockFree
       THEN /\ holder' = p
            /\ waiters' = waiters
            /\ pc' = [pc EXCEPT ![p] = "growth"]
       ELSE /\ waiters' = Append(waiters, p)
            /\ holder' = holder
            /\ pc' = [pc EXCEPT ![p] = "waiting"]
    /\ UNCHANGED <<config, gauges, clock, history>>

\* a call of a client that keeps no count of its calls
Start(p, name) == Dispatch(p, name) /\ UNCHANGED calls_issued

\* _run_tool(name): the lookup of the profile raises KeyError for a name that is
\* not in the catalog, before get_state() and perform_break are reached
RunTool(p, name) ==
    IF ProfileOf(name).found
    THEN Start(p, name)
    ELSE /\ pc[p] = "idle"
         /\ loc' = [loc EXCEPT ![p] = [NoLocals EXCEPT !.tool = name,
                                                       !.error = "KeyError"]]
         /\ UNCHANGED <<config, gauges, lock, clock, pc, history, calls_issued>>

\* the released lock goes to the first waiter
Granted(p) ==
    /\ pc[p] = "waiting"
    /\ holder = NoCall
    /\ waiters # <<>>
    /\ Head(waiters) = p
    /\ holder' = p
    /\ waiters' = Tail(waiters)
    /\ pc' = [pc EXCEPT ![p] = "growth"]
    /\ UNCHANGED <<config, gauges, clock, loc, history, calls_issued>>

(* ------------------------------------------- _apply_stress_growth -- *)
\* variant: a tick is counted only once more than the interval has passed
StressTicksPastInterval(current_time, anchor) ==
    (current_time - anchor - 1) \div stress_growth_interval
\* ticks = int(elapsed // self.stress_growth_interval)
StressTicks(current_time, anchor) ==
    (current_time - anchor) \div stress_growth_interval

\* variant: the ticks are added without the cap
GrowStressUncapped(stress, ticks) == stress + ticks
\* self.stress_level = min(self.max_stress, self.stress_level + ticks)
GrowStress(stress, ticks) == Min(max_stress, stress + ticks)

\* variant: the anchor is advanced by the ticks, not by the time they stand for
AdvanceStressAnchorByTicks(anchor, ticks) == anchor + ticks
\* variant: the anchor is left where it was
KeepStressAnchor(anchor, ticks) == anchor
\* self.last_stress_update += ticks * self.stress_growth_interval
AdvanceStressAnchor(anchor, ticks) == anchor + ticks * stress_growth_interval

\* variant: the anchor is reset to the clock value of the call
GrowthAnchoredAtNow(stress, anchor, current_time) ==
    LET ticks == StressTicks(current_time, anchor)
    IN  [stress |-> GrowStress(stress, Max(0, ticks)),
         anchor |-> current_time,
         ret |-> Max(0, ticks)]

\* variant: only the points the stress rose by are counted and taken off the clock
GrowthCountsTheRise(stress, anchor, current_time) ==
    LET ticks == StressTicks(current_time, anchor)
        rise == GrowStress(stress, ticks) - stress
    IN  IF ticks <= 0
        THEN [stress |-> stress, anchor |-> anchor, ret |-> 0]
        ELSE [stress |-> GrowStress(stress, ticks),
              anchor |-> AdvanceStressAnchor(anchor, rise),
              ret |-> rise]

\* the new stress level, the new anchor and the returned tick count
ApplyStressGrowth(stress, anchor, current_time) ==
    LET ticks == StressTicks(current_time, anchor)
    IN  IF ticks <= 0
        THEN [stress |-> stress, anchor |-> anchor, ret |-> 0]
        ELSE [stress |-> GrowStress(stress, ticks),
              anchor |-> AdvanceStressAnchor(anchor, ticks),
              ret |-> ticks]

(* ------------------------------------------- _apply_boss_cooldown -- *)
\* variant: the interval is taken to be in minutes
CooldownStepsInMinutes(current_time, anchor) ==
    ((current_time - anchor) \div 60) \div boss_alertness_cooldown
\* a // b of Python, b not 0, which rounds toward minus infinity
FloorDiv(a, b) == IF b > 0 THEN a \div b ELSE (0 - a) \div (0 - b)
\* variant: a step is counted only once more than the interval has passed
CooldownStepsPastInterval(current_time, anchor) ==
    FloorDiv(current_time - anchor - 1, boss_alertness_cooldown)
\* steps = int(elapsed // self.boss_alertness_cooldown)
CooldownSteps(current_time, anchor) ==
    FloorDiv(current_time - anchor, boss_alertness_cooldown)

\* variant: two levels for every interval
CoolDownTwoPerStep(previous_level, steps) == Max(0, previous_level - 2 * steps)
\* variant: one level per call, however many intervals have passed
CoolDownOneStep(previous_level, steps) == Max(0, previous_level - 1)
\* self.boss_alert_level = max(0, previous_level - steps)
CoolDown(previous_level, steps) == Max(0, previous_level - steps)

\* variant: the anchor is advanced by the steps counted, as the stress anchor is
CooldownByWholeSteps(level, anchor, current_time) ==
    LET steps == CooldownSteps(current_time, anchor)
    IN  IF level = 0
        THEN [level |-> level, anchor |-> current_time, ret |-> 0]
        ELSE IF steps <= 0
        THEN [level |-> level, anchor |-> anchor, ret |-> 0]
        ELSE [level |-> CoolDown(level, steps),
              anchor |-> anchor + steps * boss_alertness_cooldown,
              ret |-> level - CoolDown(level, steps)]

\* variant: a cooldown that takes levels off leaves the anchor where it was
CooldownKeepsAnchor(level, anchor, current_time) ==
    LET steps == CooldownSteps(current_time, anchor)
    IN  IF level = 0
        THEN [level |-> level, anchor |-> current_time, ret |-> 0]
        ELSE IF steps <= 0
        THEN [level |-> level, anchor |-> anchor, ret |-> 0]
        ELSE [level |-> CoolDown(level, steps),
              anchor |-> anchor,
              ret |-> level - CoolDown(level, steps)]

\* variant: level 0 is not set apart, and the steps counted are what is returned
CooldownWithoutZeroFreeze(level, anchor, current_time) ==
    LET steps == CooldownSteps(current_time, anchor)
    IN  IF steps <= 0
        THEN [level |-> level, anchor |-> anchor, ret |-> 0]
        ELSE [level |-> CoolDown(level, steps),
              anchor |-> current_time,
              ret |-> steps]

\* the new alert level, the new anchor and the returned drop
ApplyBossCooldown(level, anchor, current_time) ==
    LET steps == CooldownSteps(current_time, anchor)
    IN  IF level = 0
        THEN [level |-> level, anchor |-> current_time, ret |-> 0]
        ELSE IF steps <= 0
        THEN [level |-> level, anchor |-> anchor, ret |-> 0]
        ELSE [level |-> CoolDown(level, steps),
              anchor |-> current_time,
              ret |-> level - CoolDown(level, steps)]

(* ------------------------------------------------------- the relief -- *)
\* variants: the relief is added; the relief is subtracted with no floor
AddRelief(stress, relief) == Min(max_stress, stress + relief)
SubtractRelief(stress, relief) == stress - relief
\* self.stress_level = max(0, self.stress_level - relief)
ReliefStress(stress, relief) == Max(0, stress - relief)

(* ---------------------------------------- _maybe_raise_boss_alert -- *)
\* variant: the increment is applied to the level the state was created with
RaiseAlertFromInitial(level) == Min(max_boss_alert, InitialAlert + 1)
\* self.boss_alert_level = min(self.max_boss_alert, self.boss_alert_level + 1)
RaiseAlert(level) == Min(max_boss_alert, level + 1)

\* variant: no early return for P = 0 and the roll drawn from 0..99
MaybeRaiseRollFromZero(level, anchor, current_time, roll) ==
    IF level >= max_boss_alert
    THEN [level |-> level, anchor |-> anchor, ret |-> TRUE]
    ELSE IF roll - 1 <= boss_alertness
    THEN [level |-> RaiseAlert(level), anchor |-> current_time, ret |-> TRUE]
    ELSE [level |-> level, anchor |-> anchor, ret |-> FALSE]

\* variant: < in place of <= in the test of the roll
MaybeRaiseStrictRoll(level, anchor, current_time, roll) ==
    IF level >= max_boss_alert
    THEN [level |-> level, anchor |-> anchor, ret |-> TRUE]
    ELSE IF boss_alertness = 0
    THEN [level |-> level, anchor |-> anchor, ret |-> FALSE]
    ELSE IF roll < boss_alertness
    THEN [level |-> RaiseAlert(level), anchor |-> current_time, ret |-> TRUE]
    ELSE [level |-> level, anchor |-> anchor, ret |-> FALSE]

\* variant: no early return at the maximum level
MaybeRaiseNoMaxCheck(level, anchor, current_time, roll) ==
    IF boss_alertness = 0
    THEN [level |-> level, anchor |-> anchor, ret |-> FALSE]
    ELSE IF roll <= boss_alertness
    THEN [level |-> RaiseAlert(level), anchor |-> current_time, ret |-> TRUE]
    ELSE [level |-> level, anchor |-> anchor, ret |-> FALSE]

\* variant: at the maximum level the anchor is moved to the time of the call
MaybeRaiseReanchorsAtMax(level, anchor, current_time, roll) ==
    IF level >= max_boss_alert
    THEN [level |-> level, anchor |-> current_time, ret |-> TRUE]
    ELSE IF boss_alertness = 0
    THEN [level |-> level, anchor |-> anchor, ret |-> FALSE]
    ELSE IF roll <= boss_alertness
    THEN [level |-> RaiseAlert(level), anchor |-> current_time, ret |-> TRUE]
    ELSE [level |-> level, anchor |-> anchor, ret |-> FALSE]

\* variant: a successful roll raises the level and leaves the anchor
MaybeRaiseKeepsAnchor(level, anchor, current_time, roll) ==
    IF level >= max_boss_alert
    THEN [level |-> level, anchor |-> anchor, ret |-> TRUE]
    ELSE IF boss_alertness = 0
    THEN [level |-> level, anchor |-> anchor, ret |-> FALSE]
    ELSE IF roll <= boss_alertness
    THEN [level |-> RaiseAlert(level), anchor |-> anchor, ret |-> TRUE]
    ELSE [level |-> level, anchor |-> anchor, ret |-> FALSE]

\* the new alert level, the new anchor and the returned flag
MaybeRaiseBossAlert(level, anchor, current_time, roll) ==
    IF level >= max_boss_alert
    THEN [level |-> level, anchor |-> anchor, ret |-> TRUE]
    ELSE IF boss_alertness = 0
    THEN [level |-> level, anchor |-> anchor, ret |-> FALSE]
    ELSE IF roll <= boss_alertness
    THEN [level |-> RaiseAlert(level), anchor |-> current_time, ret |-> TRUE]
    ELSE [level |-> level, anchor |-> anchor, ret |-> FALSE]

\* variant: > in place of >=
DelayOnlyAboveMax(current_boss) == current_boss > max_boss_alert
\* delay_required = current_boss >= self.max_boss_alert
DelayRequired(current_boss) == current_boss >= max_boss_alert

(* ------------------------------------------------- _compose_notes -- *)
\* if stress_growth > 0: notes.append("Stress kept climbing by ...")
StressClimbingNote(stress_growth) == stress_growth > 0
\* if cooldown_steps > 0: notes.append("The boss cooled down by ...")
CooledDownNote(cooldown_steps) == cooldown_steps > 0

(* ------------------------------------------------------ the response -- *)
\* a line of text is a sequence of tokens; a number is written digit by digit
DigitChars == <<"0", "1", "2", "3", "4", "5", "6", "7", "8", "9">>

RECURSIVE Digits(_)
Digits(n) ==
    IF n < 10 THEN <<DigitChars[n + 1]>>
    ELSE Digits(n \div 10) \o <<DigitChars[(n % 10) + 1]>>
\* f"{n}" of an int
FormatInt(n) == IF n < 0 THEN <<"-">> \o Digits(0 - n) ELSE Digits(n)

\* what int(...) accepts of the text after the label, and what it yields
IsIntLiteral(text) ==
    LET body == IF text # <<>> /\ Head(text) = "-" THEN Tail(text) ELSE text
    IN  /\ body # <<>>
        /\ \A i \in DOMAIN body : \E d \in DOMAIN DigitChars : DigitChars[d] = body[i]
DigitValue(c) == (CHOOSE d \in DOMAIN DigitChars : DigitChars[d] = c) - 1
RECURSIVE ParseDigits(_)
ParseDigits(body) ==
    IF body = <<>> THEN 0
    ELSE ParseDigits(SubSeq(body, 1, Len(body) - 1)) * 10 + DigitValue(body[Len(body)])
ParseInt(text) ==
    IF Head(text) = "-" THEN 0 - ParseDigits(Tail(text)) ELSE ParseDigits(text)

\* _compose_notes: the lines that precede the summary lines
ComposeNotes(tool, relief, stress_growth, cooldown_steps, triggered, boss_level) ==
    <<  <<"flavor", tool>>  >>
    \o (IF StressClimbingNote(stress_growth)
        THEN << <<"Stress kept climbing by">> \o FormatInt(stress_growth)
                   \o <<"while you were grinding.">> >>
        ELSE <<>>)
    \o (IF relief > 0
        THEN << <<"You reclaimed">> \o FormatInt(relief)
                   \o <<"stress points during this break.">> >>
        ELSE << <<"Stress barely budged">> >>)
    \o (IF CooledDownNote(cooldown_steps)
        THEN << <<"The boss cooled down by">> \o FormatInt(cooldown_steps)
                   \o <<IF cooldown_steps > 1 THEN "notches." ELSE "notch.">> >>
        ELSE <<>>)
    \o (IF triggered
        THEN IF boss_level >= max_boss_alert
             THEN << <<"Boss Alert Level maxed out!">> >>
             ELSE << <<"Boss senses something odd">> >>
        ELSE << <<"Boss remained blissfully unaware.">> >>)

\* outcomes of random.choice over a pool of three: the first and the last
SpinChoices == {"1", "3"}
\* the pool the summary is drawn from: SPECIAL_SPINS has only "default"
SummaryPool(tool_name, delay_required) ==
    IF delay_required
    THEN {<<"SPECIAL_SPINS", "default", i>> : i \in SpinChoices}
    ELSE {<<"SPINS", tool_name, i>> : i \in SpinChoices}

\* variant: the summary line is left out
ResponseLinesNoSummary(notes, summary_text, current_stress, current_boss) ==
    <<notes,
      << <<"Stress Level:">> \o FormatInt(current_stress),
         <<"Boss Alert Level:">> \o FormatInt(current_boss) >> >>
\* response_lines: the notes (a text of several lines) and the three labelled lines
ResponseLines(notes, summary_text, current_stress, current_boss) ==
    <<notes,
      << <<"Break Summary:">> \o summary_text,
         <<"Stress Level:">> \o FormatInt(current_stress),
         <<"Boss Alert Level:">> \o FormatInt(current_boss) >> >>

NonEmptyLine(line) == line # <<>>
\* "\n".join(line for line in response_lines if line), read line by line
JoinLines(response_lines) ==
    (IF response_lines[1] # <<>> THEN response_lines[1] ELSE <<>>)
    \o SelectSeq(response_lines[2], NonEmptyLine)

\* the response of a call whose locals at the end of the with-block are result
BreakResponse(result, summary_text) ==
    JoinLines(ResponseLines(
        ComposeNotes(result.tool, result.relief_applied, result.stress_growth,
                     result.cooldown_steps, result.boss_alert_triggered,
                     result.current_boss),
        summary_text, result.current_stress, result.current_boss))

(* ------------------------------- perform_break, the critical section -- *)
\* now = time.monotonic(); stress_growth = self._apply_stress_growth(now)
StressGrowth(p) ==
    /\ pc[p] = "growth"
    /\ LET g == ApplyStressGrowth(stress_level, last_stress_update, clock)
       IN  /\ stress_level' = g.stress
           /\ last_stress_update' = g.anchor
           /\ ticks_reported' = ticks_reported + g.ret
           /\ loc' = [loc EXCEPT ![p].now = clock,
                                 ![p].gap = IF prev_now = -1 THEN -1 ELSE clock - prev_now,
                                 ![p].carry = IF prev_now = -1 THEN -1
                                              ELSE prev_now - last_stress_update,
                                 ![p].stress_in = stress_level,
                                 ![p].alert_in = boss_alert_level,
                                 ![p].stress_growth = g.ret]
    /\ prev_now' = clock
    /\ pc' = [pc EXCEPT ![p] = "cooldown"]
    /\ UNCHANGED <<config, boss_alert_level, last_boss_cooldown_check, lock, clock,
                   committed, calls_issued>>

\* cooldown_steps = self._apply_boss_cooldown(now); with a cooldown of 0 the
\* division raises ZeroDivisionError, which leaves the with-block and ends the call
BossCooldown(p) ==
    /\ pc[p] = "cooldown"
    /\ IF boss_alertness_cooldown = 0
       THEN /\ UNCHANGED <<boss_alert_level, last_boss_cooldown_check, waiters,
                           committed>>
            /\ loc' = [loc EXCEPT ![p] =
                          [NoLocals EXCEPT !.error = "ZeroDivisionError"]]
            /\ pc' = [pc EXCEPT ![p] = "idle"]
            /\ holder' = NoCall
       ELSE /\ LET c == ApplyBossCooldown(boss_alert_level, last_boss_cooldown_check,
                                          loc[p].now)
               IN  /\ boss_alert_level' = c.level
                   /\ last_boss_cooldown_check' = c.anchor
                   /\ loc' = [loc EXCEPT ![p].cooldown_steps = c.ret]
            /\ pc' = [pc EXCEPT ![p] = "relief"]
            /\ UNCHANGED <<lock, committed>>
    /\ UNCHANGED <<config, stress_level, last_stress_update, clock, prev_now,
                   ticks_reported, calls_issued>>

\* relief = random.randint(...); previous_stress = ...; self.stress_level = ...
Relief(p) ==
    /\ pc[p] = "relief"
    /\ \E relief \in ReliefDraws(ProfileOf(loc[p].tool).profile) :
          /\ stress_level' = ReliefStress(stress_level, relief)
          /\ loc' = [loc EXCEPT ![p].relief = relief,
                                ![p].previous_stress = stress_level]
    /\ pc' = [pc EXCEPT ![p] = "trigger"]
    /\ UNCHANGED <<config, boss_alert_level, last_stress_update,
                   last_boss_cooldown_check, lock, clock, history, calls_issued>>

\* variant: the delay is inside the with-block
HolderWhileDelayed(p, delay_required) == IF delay_required THEN p ELSE NoCall
\* the holder of the lock once the "async with" block is left, which is before
\* the delay, if any, begins
HolderAfterSection(p, delay_required) == NoCall

\* variant: current_stress is read before the relief is taken off
BreakResultBeforeRelief(p, t) ==
    [NoLocals EXCEPT !.tool = loc[p].tool,
                     !.start = loc[p].start,
                     !.now = loc[p].now,
                     !.alert_in = loc[p].alert_in,
                     !.stress_growth = loc[p].stress_growth,
                     !.cooldown_steps = loc[p].cooldown_steps,
                     !.boss_alert_triggered = t.ret,
                     !.current_stress = loc[p].previous_stress,
                     !.current_boss = t.level,
                     !.delay_required = DelayRequired(t.level),
                     !.relief_applied = loc[p].previous_stress - stress_level]

\* what the call still uses after the with-block: the values the response is
\* made of and the delay flag (start, now and alert_in are kept for the timing
\* properties); t is the outcome of _maybe_raise_boss_alert
BreakResult(p, t) ==
    [NoLocals EXCEPT !.tool = loc[p].tool,
                     !.start = loc[p].start,
                     !.now = loc[p].now,
                     !.alert_in = loc[p].alert_in,
                     !.stress_growth = loc[p].stress_growth,
                     !.cooldown_steps = loc[p].cooldown_steps,
                     !.boss_alert_triggered = t.ret,
                     !.current_stress = stress_level,
                     !.current_boss = t.level,
                     !.delay_required = DelayRequired(t.level),
                     !.relief_applied = loc[p].previous_stress - stress_level]

\* boss_alert_triggered = self._maybe_raise_boss_alert(now); current_stress = ...;
\* current_boss = ...; delay_required = ...; relief_applied = ...; the response is
\* composed and the with-block ends.  Then the call either starts
\* asyncio.sleep(self.boss_alert_delay) or returns.
Trigger(p, roll) ==
    /\ pc[p] = "trigger"
    /\ LET t == MaybeRaiseBossAlert(boss_alert_level, last_boss_cooldown_check,
                                    loc[p].now, roll)
           delay_required == DelayRequired(t.level)
           result == BreakResult(p, t)
       IN  /\ boss_alert_level' = t.level
           /\ last_boss_cooldown_check' = t.anchor
           /\ committed' = [Gauges EXCEPT !.alert = t.level,
                                          !.cooldown_anchor = t.anchor]
           /\ IF delay_required
              THEN /\ \E summary_text \in SummaryPool(loc[p].tool, delay_required) :
                        loc' = [loc EXCEPT ![p] =
                                  [result EXCEPT
                                     !.wake = clock + boss_alert_delay,
                                     !.response = BreakResponse(result, summary_text)]]
                   /\ pc' = [pc EXCEPT ![p] = "sleeping"]
              ELSE /\ loc' = [loc EXCEPT ![p] = NoLocals]
                   /\ pc' = [pc EXCEPT ![p] = "idle"]
    /\ holder' = HolderAfterSection(p, DelayRequired(boss_alert_level'))
    /\ UNCHANGED <<config, stress_level, last_stress_update, waiters, clock, prev_now,
                   ticks_reported, calls_issued>>

(* ------------------------------ perform_break, after the with-block -- *)
\* variant: the sleep returns at once
DelayOverAtOnce(current_time, wake) == TRUE
\* asyncio.sleep(delay) is over once the clock has reached the wake-up time
DelayOver(current_time, wake) == current_time >= wake

\* the sleep ends and the call returns the response it composed
EndDelay(p) ==
    /\ pc[p] = "sleeping"
    /\ DelayOver(clock, loc[p].wake)
    /\ loc' = [loc EXCEPT ![p] = NoLocals]
    /\ pc' = [pc EXCEPT ![p] = "idle"]
    /\ UNCHANGED <<config, gauges, lock, clock, history, calls_issued>>

\* variant: a handler of the cancellation puts the alert level back to what the
\* call found
CancelRollsBack(g, l) == [g EXCEPT !.alert = l.alert_in]
\* CancelledError leaves perform_break through no except or finally clause, and
\* the with-block is over: the gauges are what they were
GaugesAfterCancel(g, l) == g

\* the task is cancelled while it awaits asyncio.sleep: CancelledError is raised
\* at the await and the call ends without a response
Cancel(p) ==
    /\ pc[p] = "sleeping"
    /\ LET g == GaugesAfterCancel(Gauges, loc[p])
       IN  /\ stress_level' = g.stress
           /\ boss_alert_level' = g.alert
           /\ last_stress_update' = g.stress_anchor
           /\ last_boss_cooldown_check' = g.cooldown_anchor
    /\ loc' = [loc EXCEPT ![p] = [NoLocals EXCEPT !.error = "CancelledError"]]
    /\ pc' = [pc EXCEPT ![p] = "idle"]
    /\ UNCHANGED <<config, lock, clock, history, calls_issued>>

Next ==
    \/ \E d \in Gaps : clock + d <= ConcHorizon /\ Advance(d)
    \/ \E p \in Calls, name \in ToolNames : Start(p, name)
    \/ \E p \in Calls : Granted(p)
    \/ \E p \in Calls : StressGrowth(p)
    \/ \E p \in Calls : BossCooldown(p)
    \/ \E p \in Calls : Relief(p)
    \/ \E p \in Calls, roll \in Rolls : Trigger(p, roll)
    \/ \E p \in Calls : EndDelay(p)

Spec == Init /\ [][Next]_vars

\* one client that issues its calls one after another, with any tool of the catalog
NextSeq ==
    \/ \E d \in Gaps : (clock % LongIdle) + d <= Horizon /\ Advance(d)
    \/ clock < LongIdle /\ Advance(LongIdle)
    \/ \E name \in SeqToolNames : Start(1, name)
    \/ StressGrowth(1)
    \/ BossCooldown(1)
    \/ Relief(1)
    \/ \E roll \in Rolls : Trigger(1, roll)
    \/ EndDelay(1)

SpecSeq == Init /\ [][NextSeq]_vars

\* the test client's run against a server started with --boss_alertness 100
\* --boss_alertness_cooldown 300: take_a_break six times, each call awaited before
\* the next is issued (the client's break at level 5 is left out: all six are made)
InitRun ==
    /\ Init
    /\ boss_alertness = 100
    /\ boss_alertness_cooldown = 300

\* result = await self.call_tool("take_a_break"), in the loop
RunCall ==
    /\ calls_issued < RunLength
    /\ Dispatch(1, "take_a_break")
    /\ calls_issued' = calls_issued + 1

NextRun ==
    \/ \E d \in Gaps : clock + d <= Horizon /\ Advance(d)
    \/ RunCall
    \/ StressGrowth(1)
    \/ BossCooldown(1)
    \/ Relief(1)
    \/ \E roll \in Rolls : Trigger(1, roll)
    \/ EndDelay(1)

SpecRun == InitRun /\ [][NextRun]_vars

\* A burst of calls on a fresh state with P = 100 and a cooldown of 300 s: each
\* task issues one call, all before any time has passed; the tasks are numbered
\* in the order in which they call.  The clock is followed while a call sleeps.
BurstSize == 6
BurstCalls == 1..BurstSize

InitBurst ==
    /\ boss_alertness = 100
    /\ boss_alertness_cooldown = 300
    /\ stress_level = InitialStress
    /\ boss_alert_level = InitialAlert
    /\ last_stress_update = 0
    /\ last_boss_cooldown_check = 0
    /\ holder = NoCall
    /\ waiters = <<>>
    /\ clock = 0
    /\ pc = [p \in BurstCalls |-> "idle"]
    /\ loc = [p \in BurstCalls |-> NoLocals]
    /\ committed = [stress |-> InitialStress, alert |-> InitialAlert,
                    stress_anchor |-> 0, cooldown_anchor |-> 0]
    /\ prev_now = -1
    /\ ticks_reported = 0
    /\ calls_issued = 0
    /\ main = [at |-> "run", args |-> Args(boss_alertness, boss_alertness_cooldown),
               exit |-> NoExit]

\* the next task of the burst calls take_a_break
BurstCall(p) ==
    /\ p = calls_issued + 1
    /\ clock = 0
    /\ Dispatch(p, "take_a_break")
    /\ calls_issued' = calls_issued + 1

BurstSleeper == \E p \in BurstCalls : pc[p] = "sleeping" /\ clock < loc[p].wake
BurstTimePasses == \E d \in Gaps : BurstSleeper /\ Advance(d)

NextBurst ==
    \/ BurstTimePasses
    \/ \E p \in BurstCalls : BurstCall(p)
    \/ \E p \in BurstCalls : Granted(p)
    \/ \E p \in BurstCalls : StressGrowth(p)
    \/ \E p \in BurstCalls : BossCooldown(p)
    \/ \E p \in BurstCalls : Relief(p)
    \/ \E p \in BurstCalls, roll \in Rolls : Trigger(p, roll)
    \/ \E p \in BurstCalls : EndDelay(p)

SpecBurst == InitBurst /\ [][NextBurst]_vars

\* One caller, P = 100, whose calls are always less than two cooldown intervals
\* apart (the first less than two intervals after the state was created)
InitClose == Init /\ boss_alertness = 100
LastCall == IF prev_now = -1 THEN 0 ELSE prev_now
CloseAdvance(d) ==
    /\ clock + d <= Horizon
    /\ clock + d - LastCall < 2 * boss_alertness_cooldown
    /\ Advance(d)

NextClose ==
    \/ \E d \in Gaps : CloseAdvance(d)
    \/ \E name \in ToolNames : Start(1, name)
    \/ StressGrowth(1)
    \/ BossCooldown(1)
    \/ Relief(1)
    \/ \E roll \in Rolls : Trigger(1, roll)
    \/ EndDelay(1)

SpecClose == InitClose /\ [][NextClose]_vars

\* The tasks under the asyncio event loop: one task runs at a time, from one
\* await that suspends it to the next.  The with-block has no such await, so
\* while a task is inside it no other task starts, resumes or sees time pass.
Running == \E q \in Calls : pc[q] \in InCS

CoopStart(p, name) == ~Running /\ Start(p, name)

\* the event loop resumes a suspended task: one that waited for the lock and has
\* been given it, or one whose sleep is over
CoopResume(p) ==
    IF pc[p] = "waiting" THEN ~Running /\ Granted(p) ELSE ~Running /\ EndDelay(p)

NextCoop ==
    \/ \E d \in Gaps : clock + d <= ConcHorizon /\ Advance(d)
    \/ \E p \in Calls, name \in ToolNames : CoopStart(p, name)
    \/ \E p \in Calls : CoopResume(p)
    \/ \E p \in Calls : StressGrowth(p)
    \/ \E p \in Calls : BossCooldown(p)
    \/ \E p \in Calls : Relief(p)
    \/ \E p \in Calls, roll \in Rolls : Trigger(p, roll)

SpecCoop == Init /\ [][NextCoop]_vars

\* perform_break with "async with self._lock" taken out: a call goes straight to
\* its first statement (holder then only says which task is running)
NoLockStart(p, name) ==
    /\ ~Running
    /\ pc[p] = "idle"
    /\ loc' = [loc EXCEPT ![p] = NewLocals(name)]
    /\ holder' = p
    /\ waiters' = waiters
    /\ pc' = [pc EXCEPT ![p] = "growth"]
    /\ UNCHANGED <<config, gauges, clock, history, calls_issued>>

NextNoLock ==
    \/ \E d \in Gaps : clock + d <= ConcHorizon /\ Advance(d)
    \/ \E p \in Calls, name \in ToolNames : NoLockStart(p, name)
    \/ \E p \in Calls : ~Running /\ EndDelay(p)
    \/ \E p \in Calls : StressGrowth(p)
    \/ \E p \in Calls : BossCooldown(p)
    \/ \E p \in Calls : Relief(p)
    \/ \E p \in Calls, roll \in Rolls : Trigger(p, roll)

\* the process from its start: main() and then, once the server runs, one client
NextMain ==
    \/ ParseArgs
    \/ Construct
    \/ \E d \in Gaps : main.at = "run" /\ clock + d <= ConcHorizon /\ Advance(d)
    \/ \E name \in ToolNames \cup UnknownNames : main.at = "run" /\ RunTool(1, name)
    \/ StressGrowth(1)
    \/ BossCooldown(1)
    \/ Relief(1)
    \/ \E roll \in Rolls : Trigger(1, roll)
    \/ EndDelay(1)
    \/ Cancel(1)

SpecMain == InitMain /\ [][NextMain]_vars

\* Concurrent callers under a fair scheduler.  The calls are issued in a burst,
\* before the first delay can have ended; the clock is followed for as long as a
\* call sleeps (what remains to be done after that does not wait for the clock).
FairStartHorizon == boss_alert_delay
Sleeper == \E p \in Calls : pc[p] = "sleeping" /\ clock < loc[p].wake
TimePasses == \E d \in Gaps : Sleeper /\ Advance(d)

NextFair ==
    \/ TimePasses
    \/ \E p \in Calls, name \in ToolNames : clock < FairStartHorizon /\ Start(p, name)
    \/ \E p \in Calls : Granted(p)
    \/ \E p \in Calls : StressGrowth(p)
    \/ \E p \in Calls : BossCooldown(p)
    \/ \E p \in Calls : Relief(p)
    \/ \E p \in Calls, roll \in Rolls : Trigger(p, roll)
    \/ \E p \in Calls : EndDelay(p)

\* the event loop runs every task that is ready (a task that got the lock, a task
\* inside the with-block, a task whose sleep is over), and time passes
Fairness ==
    /\ WF_vars(TimePasses)
    /\ \A p \in Calls :
          /\ WF_vars(Granted(p))
          /\ WF_vars(StressGrowth(p))
          /\ WF_vars(BossCooldown(p))
          /\ WF_vars(Relief(p))
          /\ WF_vars(\E roll \in Rolls : Trigger(p, roll))
          /\ WF_vars(EndDelay(p))

SpecFair == Init /\ [][NextFair]_vars /\ Fairness

\* ChillMCPState built without parse_args, and one client calling
NextDirect ==
    \/ Construct
    \/ \E d \in Gaps : main.at = "run" /\ clock + d <= Horizon /\ Advance(d)
    \/ \E name \in ToolNames : main.at = "run" /\ Start(1, name)
    \/ StressGrowth(1)
    \/ BossCooldown(1)
    \/ Relief(1)
    \/ \E roll \in Rolls : Trigger(1, roll)
    \/ EndDelay(1)

SpecDirect == InitDirect /\ [][NextDirect]_vars

(* ===================================================== properties ==== *)
\* p takes its Trigger step (the last step of its critical section) in this step
Leaves(p) == pc[p] = "trigger" /\ pc'[p] # "trigger"
\* p returns from its delay in this step
Wakes(p) == pc[p] = "sleeping" /\ pc'[p] = "idle"
\* positions at which p has captured the clock and applied stress growth
PastGrowth == {"cooldown", "relief", "trigger"}

\* C1: outside the critical section, 0 <= stress_level <= 100 and
\* 0 <= boss_alert_level <= 5, after any sequence of calls.
C1_GaugesInRange ==
    holder = NoCall =>
        /\ 0 <= stress_level /\ stress_level <= max_stress
        /\ 0 <= boss_alert_level /\ boss_alert_level <= max_boss_alert

\* calls have run, stress has been relieved down to the floor and the alert level
\* has been raised up to the cap
C1_Witness ==
    /\ holder = NoCall
    /\ prev_now >= LongIdle
    /\ stress_level = 0
    /\ boss_alert_level = max_boss_alert

\* C2: at most one call is inside the critical section at any time.
C2_MutualExclusion == Cardinality({p \in Calls : pc[p] \in InCS}) <= 1

\* one call is inside the critical section while another one waits for the lock
C2_Witness ==
    \E p, q \in Calls : pc[p] \in {"relief", "trigger"} /\ pc[q] = "waiting"

\* C3: the gauges a call finds on entry are exactly the gauges the preceding
\* critical section committed, nothing changes them between critical sections, and
\* what a call has read on entry stays the committed state while it is inside.
C3_Linearizable ==
    /\ holder = NoCall => Gauges = committed
    /\ \A p \in Calls :
          /\ pc[p] = "growth" => Gauges = committed
          /\ pc[p] \in PastGrowth =>
                /\ loc[p].stress_in = committed.stress
                /\ loc[p].alert_in = committed.alert

\* a call that had to wait has entered and read what an earlier call committed
C3_Witness ==
    \E p, q \in Calls :
        /\ p # q
        /\ pc[q] = "cooldown"
        /\ loc[q].stress_in = committed.stress
        /\ committed.stress < InitialStress
        /\ committed.alert > 0
        /\ pc[p] = "waiting"

\* C4: a call that is in its saturation delay does not hold the lock.
C4_NoSleepUnderLock == \A p \in Calls : pc[p] = "sleeping" => holder # p

\* one call sleeps, its delay not yet over, while another is in the critical section
C4_Witness ==
    \E p, q \in Calls :
        /\ pc[p] = "sleeping" /\ clock < loc[p].wake
        /\ holder = q /\ pc[q] \in InCS

\* C5: a delay keeps nobody out of the critical section: when every other call is
\* idle or sleeping the lock is free for an arriving call, and a call that waits
\* waits for a call that is inside the critical section, never for a sleeping one.
C5_DelayDoesNotBlock ==
    /\ (\A p \in Calls : pc[p] \in {"idle", "sleeping"}) =>
           holder = NoCall /\ waiters = <<>>
    /\ \A q \in Calls :
          (pc[q] = "waiting" /\ holder # NoCall) => pc[holder] \in InCS

\* two calls are in their own delays at once, neither delay over
C5_Witness ==
    \E p, q \in Calls :
        /\ p # q
        /\ pc[p] = "sleeping" /\ clock < loc[p].wake
        /\ pc[q] = "sleeping" /\ clock < loc[q].wake

\* C6: a call that enters with the alert level at 5 and whose cooldown step takes
\* nothing off reports saturated, goes into the delay, and does not return before
\* 20 seconds have passed since it started.
C6_SaturationGating ==
    [][\A p \in Calls :
          /\ (Leaves(p) /\ loc[p].alert_in >= max_boss_alert
                         /\ loc[p].cooldown_steps = 0) =>
                /\ pc'[p] = "sleeping"
                /\ loc'[p].delay_required
                /\ loc'[p].wake >= loc'[p].start + boss_alert_delay
          /\ (Wakes(p) /\ loc[p].alert_in >= max_boss_alert) =>
                clock' >= loc[p].start + boss_alert_delay]_vars

\* such a call has slept its 20 seconds and is about to return
C6_Witness ==
    \E p \in Calls :
        /\ pc[p] = "sleeping"
        /\ loc[p].alert_in >= max_boss_alert
        /\ loc[p].cooldown_steps = 0
        /\ clock >= loc[p].start + boss_alert_delay

\* C7 as stated: a call that finds the alert level at 5 or more on entry, before
\* its own cooldown step, reports saturated and owes the delay.
C7_Original ==
    [][\A p \in Calls :
          (Leaves(p) /\ loc[p].alert_in >= max_boss_alert) =>
              (pc'[p] = "sleeping" /\ loc'[p].delay_required)]_vars

\* C7 as amended: a call that finds the alert level at 5 or more when it reaches
\* the trigger step, after its own cooldown step, reports saturated and owes the
\* delay with no new trigger: the level is left as it is and the step reports
\* "triggered".
C7_SaturatedAtTrigger ==
    [][\A p \in Calls :
          (Leaves(p) /\ boss_alert_level >= max_boss_alert) =>
              /\ pc'[p] = "sleeping"
              /\ loc'[p].delay_required
              /\ loc'[p].boss_alert_triggered
              /\ boss_alert_level' = boss_alert_level
              /\ last_boss_cooldown_check' = last_boss_cooldown_check]_vars

\* a call that entered at level 5 and cooled nothing down owes the delay
C7_Witness ==
    \E p \in Calls :
        /\ pc[p] = "sleeping"
        /\ loc[p].alert_in >= max_boss_alert
        /\ loc[p].cooldown_steps = 0
        /\ loc[p].boss_alert_triggered
        /\ clock < loc[p].wake

\* C8: a call goes into the 20-second delay exactly if the alert level is 5 or more
\* at the end of its critical section; otherwise it returns in the same step.
C8_DelayIffSaturated ==
    [][\A p \in Calls :
          Leaves(p) =>
              /\ pc'[p] = "sleeping" <=> boss_alert_level' >= max_boss_alert
              /\ pc'[p] = "idle" <=> boss_alert_level' < max_boss_alert
              /\ pc'[p] = "sleeping" =>
                    /\ loc'[p].current_boss = boss_alert_level'
                    /\ loc'[p].wake = clock + boss_alert_delay]_vars

\* the call whose own trigger raised the level from 4 to 5 is in the delay
C8_Witness ==
    \E p \in Calls :
        /\ pc[p] = "sleeping"
        /\ loc[p].alert_in = max_boss_alert - 1
        /\ loc[p].current_boss = max_boss_alert

\* C9: the stress after the relief step is at most the stress captured right
\* before it, and the reported relief is never negative.
C9_NoNegativeRelief ==
    \A p \in Calls :
        /\ pc[p] = "trigger" =>
              /\ stress_level <= loc[p].previous_stress
              /\ loc[p].previous_stress - stress_level >= 0
        /\ pc[p] = "sleeping" => loc[p].relief_applied >= 0

\* the relief drawn was more than the stress there was: the floor cut it short
C9_Witness ==
    \E p \in Calls :
        /\ pc[p] = "trigger"
        /\ loc[p].stress_growth > 0
        /\ loc[p].previous_stress > 0
        /\ loc[p].previous_stress < loc[p].relief
        /\ stress_level = 0

\* C10 as stated: after T >= 60 seconds without a call, T measured from the
\* previous call, the next call's tick count is floor(T/60).
C10_Original ==
    \A p \in Calls :
        (pc[p] \in PastGrowth /\ loc[p].gap >= stress_growth_interval) =>
            loc[p].stress_growth = loc[p].gap \div stress_growth_interval

\* C10 as amended: the tick count is floor((T + r)/60), where r, 0 <= r < 60, is
\* the time that had passed since last_stress_update when the previous call was
\* made; so it is floor(T/60) or floor(T/60) + 1.
C10_TicksWithCarry ==
    \A p \in Calls :
        (pc[p] \in PastGrowth /\ loc[p].gap >= stress_growth_interval) =>
            /\ 0 <= loc[p].carry /\ loc[p].carry < stress_growth_interval
            /\ loc[p].stress_growth =
                   (loc[p].gap + loc[p].carry) \div stress_growth_interval
            /\ loc[p].stress_growth >= loc[p].gap \div stress_growth_interval
            /\ loc[p].stress_growth <= (loc[p].gap \div stress_growth_interval) + 1

\* a call after a gap of 60 seconds or more gets the extra tick of the carry
C10_Witness ==
    \E p \in Calls :
        /\ pc[p] \in PastGrowth
        /\ loc[p].gap >= stress_growth_interval
        /\ loc[p].carry > 0
        /\ loc[p].stress_growth = (loc[p].gap \div stress_growth_interval) + 1

\* C11: no growth tick is lost across calls: the growth ticks all calls so far
\* have reported add up to floor((time of the latest call - time of creation) / 60),
\* the state being created at clock value 0; relief does not touch
\* last_stress_update, which stands at 60 times that sum.
C11_NoTickLost ==
    /\ prev_now # -1 =>
          /\ ticks_reported = prev_now \div stress_growth_interval
          /\ last_stress_update = stress_growth_interval * ticks_reported
    /\ prev_now = -1 => ticks_reported = 0
    /\ \A p \in Calls : pc[p] = "trigger" => last_stress_update = committed.stress_anchor
                             + stress_growth_interval * loc[p].stress_growth

\* two calls 40 seconds apart, the first 40 seconds after creation: the first
\* reported no tick, the second reports the one tick of the 80 seconds
C11_Witness ==
    \E p \in Calls :
        /\ pc[p] = "trigger"
        /\ loc[p].now = 80
        /\ loc[p].gap = 40
        /\ loc[p].carry = 40
        /\ loc[p].stress_growth = 1
        /\ ticks_reported = 1

\* p takes its cooldown step in this step
Cools(p) == pc[p] = "cooldown" /\ pc'[p] = "relief"

\* C12: a call that enters with the alert level at 0 reports 0 cooldown steps,
\* however long ago the previous call was, and leaves last_boss_cooldown_check at
\* the clock value it captured; the anchor never moves back, so no later call
\* counts any of the time before that call.
C12_FreezeAtZero ==
    [][/\ \A p \in Calls :
             /\ (Cools(p) /\ boss_alert_level = 0) =>
                   /\ loc'[p].cooldown_steps = 0
                   /\ boss_alert_level' = 0
                   /\ last_boss_cooldown_check' = loc[p].now
             /\ (Leaves(p) /\ loc[p].alert_in = 0) =>
                   /\ loc[p].cooldown_steps = 0
                   /\ last_boss_cooldown_check' = loc[p].now
       /\ last_boss_cooldown_check' >= last_boss_cooldown_check]_vars

\* a call has come fifty minutes or more after the previous one, many cooldown
\* intervals, with the level at 0, and has counted no step
C12_Witness ==
    \E p \in Calls :
        /\ pc[p] = "relief"
        /\ loc[p].alert_in = 0
        /\ loc[p].gap >= LongIdle
        /\ loc[p].gap > 2 * boss_alertness_cooldown
        /\ loc[p].cooldown_steps = 0
        /\ last_boss_cooldown_check = loc[p].now

\* p takes its stress growth step in this step
Grows(p) == pc[p] = "growth" /\ pc'[p] = "cooldown"

\* C13: in every step last_stress_update stays as it is or goes up by a positive
\* whole multiple of 60 seconds, never down and never by part of an interval; it
\* moves in the growth step of a call only, by 60 seconds for each tick reported.
C13_StressAnchorSteps ==
    [][/\ last_stress_update' >= last_stress_update
       /\ (last_stress_update' - last_stress_update) % stress_growth_interval = 0
       /\ last_stress_update' # last_stress_update => \E p \in Calls : Grows(p)
       /\ \A p \in Calls :
             Grows(p) => last_stress_update' = last_stress_update
                             + stress_growth_interval * loc'[p].stress_growth]_vars

\* a call has moved the anchor by two intervals or more and the rest of the time,
\* less than an interval, is left between the anchor and the clock
C13_Witness ==
    \E p \in Calls :
        /\ pc[p] \in PastGrowth
        /\ loc[p].stress_growth >= 2
        /\ last_stress_update < loc[p].now
        /\ last_stress_update = committed.stress_anchor
                                 + stress_growth_interval * loc[p].stress_growth

\* C14 as stated: while the alert level is above 0, last_boss_cooldown_check only
\* moves forward and only by whole multiples of the cooldown interval.
C14_Original ==
    [][boss_alert_level > 0 =>
           /\ last_boss_cooldown_check' >= last_boss_cooldown_check
           /\ (last_boss_cooldown_check' - last_boss_cooldown_check)
                  % boss_alertness_cooldown = 0]_vars

\* C14 as amended: while the alert level is above 0, last_boss_cooldown_check only
\* moves forward, and what moves it is the cooldown step of a call that takes one
\* level or more off, or the trigger step of a call that raises the level; either
\* sets it to the clock value the call captured, whatever the distance.
C14_AnchorSetToNow ==
    [][boss_alert_level > 0 =>
           /\ last_boss_cooldown_check' >= last_boss_cooldown_check
           /\ last_boss_cooldown_check' # last_boss_cooldown_check =>
                  \E p \in Calls : Cools(p) \/ Leaves(p)
           /\ \A p \in Calls :
                 /\ Cools(p) =>
                       last_boss_cooldown_check' =
                           IF loc'[p].cooldown_steps > 0 THEN loc[p].now
                           ELSE last_boss_cooldown_check
                 /\ Leaves(p) =>
                       last_boss_cooldown_check' =
                           IF boss_alert_level' > boss_alert_level THEN loc[p].now
                           ELSE last_boss_cooldown_check]_vars

\* a cooldown step has moved the anchor, the level above 0 before it, by a
\* distance that is no whole multiple of the cooldown interval
C14_Witness ==
    \E p \in Calls :
        /\ pc[p] = "relief"
        /\ loc[p].alert_in > 0
        /\ loc[p].cooldown_steps > 0
        /\ last_boss_cooldown_check = loc[p].now
        /\ (loc[p].now - committed.cooldown_anchor) % boss_alertness_cooldown # 0

\* C15: after a call that ends with the alert level at 0, last_boss_cooldown_check
\* is the clock value that call captured, whether the level was 0 on entry or came
\* down to 0 in the call's cooldown step; it is so from the cooldown step on.
C15_ZeroIsAnchoredAtNow ==
    /\ (holder = NoCall /\ prev_now # -1 /\ boss_alert_level = 0) =>
           last_boss_cooldown_check = prev_now
    /\ \A p \in Calls :
          (pc[p] \in {"relief", "trigger"} /\ boss_alert_level = 0) =>
              last_boss_cooldown_check = loc[p].now

\* a call that found the level above 0, long after the anchor, has cooled it down
\* to 0 and the anchor has gone from where it stood to the call's clock value
C15_Witness ==
    \E p \in Calls :
        /\ pc[p] = "trigger"
        /\ loc[p].alert_in > 0
        /\ loc[p].cooldown_steps = loc[p].alert_in
        /\ boss_alert_level = 0
        /\ committed.cooldown_anchor < loc[p].now
        /\ last_boss_cooldown_check = loc[p].now

\* C16: with boss_alertness 0 the alert level is 0 at all times, so after every
\* call; no call reports a trigger or saturation and no call goes into the delay.
C16_NeverAlertedAtZero ==
    boss_alertness = 0 =>
        /\ boss_alert_level = 0
        /\ committed.alert = 0
        /\ \A p \in Calls :
              /\ pc[p] # "sleeping"
              /\ ~loc[p].boss_alert_triggered
              /\ ~loc[p].delay_required

\* with boss_alertness 0 calls have been made, before and after the long idle
\* period, enough of them to bring the stress down to 0, and the last has ended
C16_Witness ==
    /\ boss_alertness = 0
    /\ prev_now > LongIdle
    /\ stress_level = 0
    /\ ticks_reported > 0
    /\ holder = NoCall
    /\ \A p \in Calls : pc[p] = "idle"

\* C17 as stated: the first call on the state, when it is take_a_break, ends with
\* the stress level in 32..48.
C17_Original ==
    \A p \in Calls :
        (pc[p] = "trigger" /\ loc[p].tool = "take_a_break" /\ loc[p].gap = -1) =>
            (32 <= stress_level /\ stress_level <= 48)

\* C17 as amended: the first call on the state, when it is take_a_break and is
\* made less than 60 seconds after the state was created, reports no growth and
\* ends with the stress level in 32..48.
C17_FirstCallWithinAMinute ==
    \A p \in Calls :
        (/\ pc[p] = "trigger"
         /\ loc[p].tool = "take_a_break"
         /\ loc[p].gap = -1
         /\ loc[p].now < stress_growth_interval) =>
            /\ loc[p].stress_growth = 0
            /\ loc[p].previous_stress = InitialStress
            /\ 32 <= stress_level /\ stress_level <= 48

\* the first call, take_a_break 40 seconds after creation, has drawn the largest
\* relief and stands at the lower end of the range
C17_Witness ==
    \E p \in Calls :
        /\ pc[p] = "trigger"
        /\ loc[p].tool = "take_a_break"
        /\ loc[p].gap = -1
        /\ loc[p].now = 40
        /\ loc[p].relief = 28
        /\ stress_level = 32

\* C18: with P = 100 and a cooldown of 300 s, in a run of calls issued one after
\* another on a fresh state, the k-th call ends with the alert level at min(k, 5):
\* 5 on the fifth call and still 5 on the sixth; the calls from the fifth on, and
\* only they, go into the delay, and a call that does returns 19 seconds or more
\* after it started.
C18_RunOfSix ==
    [][/\ Leaves(1) =>
             /\ boss_alert_level' = Min(calls_issued, max_boss_alert)
             /\ pc'[1] = "sleeping" <=> calls_issued >= 5
             /\ pc'[1] = "sleeping" => loc'[1].current_boss = max_boss_alert
       /\ Wakes(1) =>
             /\ calls_issued >= 5
             /\ loc[1].current_boss = max_boss_alert
             /\ clock' - loc[1].start >= 19]_vars

\* the sixth call of the run has reported level 5 and has slept its delay out
C18_Witness ==
    /\ calls_issued = RunLength
    /\ pc[1] = "sleeping"
    /\ loc[1].alert_in = max_boss_alert
    /\ loc[1].current_boss = max_boss_alert
    /\ clock >= loc[1].wake

\* C19: a call that finds the alert level above 0, more than one cooldown interval
\* after the cooldown anchor, takes one level or more off in its cooldown step and
\* reports it: its response carries the "cooled down" note.
C19_CooldownReported ==
    \A p \in Calls :
        (/\ pc[p] \in {"relief", "trigger"}
         /\ loc[p].alert_in > 0
         /\ loc[p].now - committed.cooldown_anchor > boss_alertness_cooldown) =>
            /\ loc[p].cooldown_steps >= 1
            /\ CooledDownNote(loc[p].cooldown_steps)
            /\ pc[p] = "relief" =>
                  boss_alert_level = loc[p].alert_in - loc[p].cooldown_steps

\* the level was 2, the call comes one and a half intervals after the anchor and
\* has taken one level off
C19_Witness ==
    \E p \in Calls :
        /\ pc[p] = "trigger"
        /\ loc[p].alert_in = 2
        /\ loc[p].now - committed.cooldown_anchor > boss_alertness_cooldown
        /\ loc[p].now - committed.cooldown_anchor < 2 * boss_alertness_cooldown
        /\ loc[p].cooldown_steps = 1
        /\ boss_alert_level = 1

\* C20: a call that finds the alert level above 0 and comes more than one cooldown
\* interval after the previous call ends with the alert level strictly below the
\* level the previous call reported, whatever P is.
C20_StrictlyLower ==
    [][\A p \in Calls :
          (/\ Leaves(p)
           /\ loc[p].alert_in > 0
           /\ loc[p].gap > boss_alertness_cooldown) =>
              boss_alert_level' < loc[p].alert_in]_vars

\* C21: a call that comes 60 seconds or more after the previous call applies and
\* reports one growth tick or more, one at least for every whole minute of the
\* gap, and its response carries the "Stress kept climbing" note; the stress
\* goes up by the ticks, or to the cap of 100.
C21_IdleMinuteGrowsStress ==
    \A p \in Calls :
        (pc[p] \in PastGrowth /\ loc[p].gap >= stress_growth_interval) =>
            /\ loc[p].stress_growth >= 1
            /\ loc[p].stress_growth >= loc[p].gap \div stress_growth_interval
            /\ StressClimbingNote(loc[p].stress_growth)
            /\ pc[p] = "cooldown" =>
                  /\ stress_level = Min(max_stress, loc[p].stress_in + loc[p].stress_growth)
                  /\ stress_level >= Min(max_stress, loc[p].stress_in + 1)

\* a call exactly 60 seconds after the previous one, which had left nothing over,
\* has counted one tick and the stress is one point up
C21_Witness ==
    \E p \in Calls :
        /\ pc[p] = "cooldown"
        /\ loc[p].gap = stress_growth_interval
        /\ loc[p].carry = 0
        /\ loc[p].stress_growth = 1
        /\ stress_level = loc[p].stress_in + 1

\* SERVER_STATE is still None
NotCreated ==
    /\ boss_alertness = NoValue /\ boss_alertness_cooldown = NoValue
    /\ stress_level = NoValue /\ boss_alert_level = NoValue
    /\ last_stress_update = NoValue /\ last_boss_cooldown_check = NoValue
\* no request has been served or taken up
NothingServed ==
    /\ prev_now = -1
    /\ \A p \in Calls : pc[p] = "idle" /\ loc[p] = NoLocals

\* C22: with --boss_alertness outside 0..100 or --boss_alertness_cooldown <= 0 the
\* process exits with a non-zero status and a message, the state not created and
\* no request served; with values inside the ranges (0, 50, 100; 40, 300) it
\* does not exit: it creates the state with these values and serves.
C22_StartupValidation ==
    LET a == main.args.boss_alertness
        c == main.args.boss_alertness_cooldown
        inside == 0 <= a /\ a <= 100 /\ c > 0
    IN  /\ ~inside =>
              /\ main.at \in {"parse_args", "exit"}
              /\ NotCreated /\ NothingServed
        /\ inside => main.at \in {"parse_args", "construct", "run"}
        /\ main.at = "exit" =>
              /\ main.exit.status # 0 /\ main.exit.status # NoValue
              /\ main.exit.message # ""
        /\ main.at \in {"parse_args", "construct"} => NotCreated /\ NothingServed
        /\ main.at = "run" =>
              /\ boss_alertness = a /\ boss_alertness_cooldown = c
              /\ main.exit = NoExit

\* started with a cooldown of 0, the process has exited with status 1
C22_Witness ==
    /\ main.at = "exit"
    /\ main.args.boss_alertness = 50
    /\ main.args.boss_alertness_cooldown = 0
    /\ main.exit.status = 1
    /\ NotCreated

\* C23: a state built with P outside 0..100 or a cooldown interval <= 0 does not
\* come into being; no call fails later on account of such values, and no call
\* that fails leaves behind part of its update.
C23_ConstructionValidates ==
    /\ main.at = "run" =>
          /\ 0 <= boss_alertness /\ boss_alertness <= 100
          /\ boss_alertness_cooldown > 0
    /\ \A p \in Calls : loc[p].error = "none"
    /\ holder = NoCall => Gauges = committed

\* C24: a call that names a tool outside the catalog ends with an error, at once,
\* and the step that ends it changes none of stress_level, boss_alert_level,
\* last_stress_update and last_boss_cooldown_check.
C24_UnknownToolNoEffect ==
    [][\A p \in Calls :
          LET name == loc'[p].tool
          IN  (name # "none" /\ name \notin DOMAIN TOOL_PROFILES) =>
                 /\ loc'[p].error = "KeyError"
                 /\ pc[p] = "idle" /\ pc'[p] = "idle"
                 /\ stress_level' = stress_level
                 /\ boss_alert_level' = boss_alert_level
                 /\ last_stress_update' = last_stress_update
                 /\ last_boss_cooldown_check' = last_boss_cooldown_check]_vars

\* after a call that changed the gauges, a call for "nap" has ended in KeyError
C24_Witness ==
    /\ loc[1].tool = "nap" /\ loc[1].error = "KeyError"
    /\ prev_now # -1
    /\ stress_level # InitialStress

\* what the test clients look for in a response
HasLine(response, label) == \E i \in DOMAIN response : Head(response[i]) = label
HasNumberLine(response, label, low, high) ==
    \E i \in DOMAIN response :
        /\ Head(response[i]) = label
        /\ IsIntLiteral(Tail(response[i]))
        /\ ParseInt(Tail(response[i])) \in low..high
RequiredFields(response) ==
    /\ HasLine(response, "Break Summary:")
    /\ HasNumberLine(response, "Stress Level:", 0, max_stress)
    /\ HasNumberLine(response, "Boss Alert Level:", 0, max_boss_alert)

\* C25: the response of every call that completes, at the end of the critical
\* section or after the delay, has a "Break Summary:" line, a "Stress Level:" line
\* with an integer in 0..100 and a "Boss Alert Level:" line with an integer in 0..5.
C25_ResponseFormat ==
    [][\A p \in Calls :
          /\ (Leaves(p) /\ pc'[p] = "idle") =>
                \A roll \in Rolls :
                    LET t == MaybeRaiseBossAlert(boss_alert_level,
                                 last_boss_cooldown_check, loc[p].now, roll)
                        result == BreakResult(p, t)
                    IN  (t.level = boss_alert_level'
                            /\ t.anchor = last_boss_cooldown_check') =>
                           \A summary_text \in SummaryPool(result.tool, FALSE) :
                               RequiredFields(BreakResponse(result, summary_text))
          /\ Wakes(p) => RequiredFields(loc[p].response)]_vars

\* a delayed call is about to return a response that reports stress 0 and
\* alert level 5
C25_Witness ==
    /\ pc[1] = "sleeping"
    /\ clock >= loc[1].wake
    /\ \E i \in DOMAIN loc[1].response :
          loc[1].response[i] = <<"Stress Level:", "0">>
    /\ \E i \in DOMAIN loc[1].response :
          loc[1].response[i] = <<"Boss Alert Level:", "5">>

\* C26: under a fair scheduler every call that has started gets the lock, leaves
\* the critical section and returns, at once or after its delay, whatever the
\* other callers do.
C26_EveryCallCompletes ==
    \A p \in Calls :
        /\ (pc[p] = "waiting") ~> (holder = p)
        /\ (pc[p] \in InCS) ~> (pc[p] \notin InCS /\ holder # p)
        /\ (pc[p] = "sleeping") ~> (pc[p] = "idle")
        /\ (pc[p] # "idle") ~> (pc[p] = "idle")

\* one call sleeps out its delay while the other queues for the lock
C26_Witness ==
    /\ pc[1] = "sleeping" /\ clock < loc[1].wake
    /\ pc[2] = "waiting" /\ waiters = <<2>>

\* C27: when a call is cancelled during its delay, the stress and alert level it
\* reported at the end of its critical section are still the gauges afterwards
\* (nothing is rolled back, nothing applied again), the anchors and the lock are
\* untouched, and the call is over.
C27_CancelKeepsCommit ==
    [][\A p \in Calls :
          (pc[p] = "sleeping" /\ loc'[p].error = "CancelledError") =>
             /\ pc'[p] = "idle"
             /\ stress_level' = loc[p].current_stress
             /\ boss_alert_level' = loc[p].current_boss
             /\ Gauges' = committed
             /\ Gauges' = Gauges
             /\ holder' = holder /\ waiters' = waiters]_vars

\* the call that raised the level to 5 was cancelled before any of its 20 s
\* had passed
C27_Witness ==
    /\ loc[1].error = "CancelledError"
    /\ boss_alert_level = max_boss_alert
    /\ clock = 0

C30_SaturatedTriggerFrame ==
    [][/\ \A p \in Calls :
             (Leaves(p) /\ boss_alert_level >= max_boss_alert) =>
                /\ \A roll \in Rolls :
                      MaybeRaiseBossAlert(boss_alert_level, last_boss_cooldown_check,
                                          loc[p].now, roll)
                         = [level |-> boss_alert_level,
                            anchor |-> last_boss_cooldown_check, ret |-> TRUE]
                /\ loc'[p].boss_alert_triggered
                /\ boss_alert_level' = boss_alert_level
                /\ last_boss_cooldown_check' = last_boss_cooldown_check
       /\ (boss_alert_level < max_boss_alert /\ boss_alert_level' >= max_boss_alert) =>
             \E p \in Calls : Leaves(p) /\ last_boss_cooldown_check' = loc[p].now
       /\ (boss_alert_level >= max_boss_alert /\ boss_alert_level' >= max_boss_alert) =>
             last_boss_cooldown_check' = last_boss_cooldown_check]_vars

\* a call came 20 s after the one that raised the level to 5: it reports
\* "triggered" and the anchor still is the time of that earlier call
C30_Witness ==
    \E p \in Calls :
        /\ pc[p] = "sleeping"
        /\ loc[p].alert_in = max_boss_alert
        /\ loc[p].cooldown_steps = 0
        /\ loc[p].boss_alert_triggered
        /\ boss_alert_level = max_boss_alert
        /\ loc[p].start = last_boss_cooldown_check + 20

\* C31: below level 5 a roll of at most P raises the level by one and sets the
\* cooldown anchor to the clock value the call captured, whatever part of an
\* interval had gone by; any other roll leaves level and anchor as the cooldown
\* step left them; a cooldown step that counts 0 whole intervals at a level above 0
\* leaves the anchor where it was.
C31_AnchorFrame ==
    [][\A p \in Calls :
          /\ (Leaves(p) /\ boss_alert_level < max_boss_alert) =>
                /\ \A roll \in Rolls :
                      MaybeRaiseBossAlert(boss_alert_level, last_boss_cooldown_check,
                                          loc[p].now, roll)
                        = IF boss_alertness # 0 /\ roll <= boss_alertness
                          THEN [level |-> boss_alert_level + 1,
                                anchor |-> loc[p].now, ret |-> TRUE]
                          ELSE [level |-> boss_alert_level,
                                anchor |-> last_boss_cooldown_check, ret |-> FALSE]
                /\ boss_alert_level' > boss_alert_level =>
                      last_boss_cooldown_check' = loc[p].now
                /\ boss_alert_level' = boss_alert_level =>
                      last_boss_cooldown_check' = last_boss_cooldown_check
                /\ boss_alert_level' \in {boss_alert_level, boss_alert_level + 1}
          /\ (Cools(p) /\ boss_alert_level > 0
                /\ (loc[p].now - last_boss_cooldown_check)
                       \div boss_alertness_cooldown = 0) =>
                /\ last_boss_cooldown_check' = last_boss_cooldown_check
                /\ boss_alert_level' = boss_alert_level
                /\ loc'[p].cooldown_steps = 0]_vars

\* the call at clock value 20 found level 1 anchored at 0, cooled nothing down
\* and raised the level to 2: the anchor is 20, the 20 s towards a cooldown gone
C31_Witness ==
    /\ pc[1] = "idle"
    /\ prev_now = 20
    /\ last_boss_cooldown_check = 20
    /\ boss_alert_level = 2
    /\ committed.alert = 2 /\ committed.cooldown_anchor = 20

\* the number a client reads off the line with this label
Reported(response, label) ==
    ParseInt(Tail(response[CHOOSE i \in DOMAIN response : Head(response[i]) = label]))

\* C32: the stress and alert level in a call's response are the gauges as its own
\* critical section left them; during the delay the response does not change
\* whatever other calls do, and the step that ends the delay touches no gauge.
C32_ResponseSnapshot ==
    [][\A p \in Calls :
          /\ (Leaves(p) /\ pc'[p] = "sleeping") =>
                /\ Reported(loc'[p].response, "Stress Level:") = stress_level'
                /\ Reported(loc'[p].response, "Boss Alert Level:") = boss_alert_level'
                /\ loc'[p].current_stress = committed'.stress
                /\ loc'[p].current_boss = committed'.alert
          /\ (Leaves(p) /\ pc'[p] = "idle") =>
                \A roll \in Rolls :
                    LET t == MaybeRaiseBossAlert(boss_alert_level,
                                 last_boss_cooldown_check, loc[p].now, roll)
                        result == BreakResult(p, t)
                    IN  (t.level = boss_alert_level'
                            /\ t.anchor = last_boss_cooldown_check') =>
                           \A summary_text \in SummaryPool(result.tool, FALSE) :
                              LET response == BreakResponse(result, summary_text)
                              IN  /\ Reported(response, "Stress Level:") = stress_level'
                                  /\ Reported(response, "Boss Alert Level:")
                                        = boss_alert_level'
          /\ (pc[p] = "sleeping" /\ pc'[p] = "sleeping") =>
                loc'[p].response = loc[p].response
          /\ Wakes(p) =>
                /\ Gauges' = Gauges
                /\ Reported(loc[p].response, "Stress Level:") = loc[p].current_stress
                /\ Reported(loc[p].response, "Boss Alert Level:") = loc[p].current_boss]_vars

\* a call is about to come out of its delay with a response that says level 5,
\* while another call has since completed and left the level at 4
C32_Witness ==
    \E p, q \in Calls :
        /\ pc[p] = "sleeping" /\ clock >= loc[p].wake
        /\ Reported(loc[p].response, "Boss Alert Level:") = 5
        /\ pc[q] = "idle"
        /\ boss_alert_level = 4
        /\ last_boss_cooldown_check > loc[p].start

\* C33 as stated: when a call is over, the clock value it captured is at least
\* last_stress_update and less than 60 above it.
C33_Original ==
    [][\A p \in Calls :
          ((Leaves(p) /\ pc'[p] = "idle") \/ Wakes(p)) =>
             /\ 0 <= loc[p].now - last_stress_update'
             /\ loc[p].now - last_stress_update' < stress_growth_interval]_vars

\* C33 as amended: from its growth step to the end of its critical section, the
\* clock value a call captured is at least last_stress_update and less than 60
\* above it.
C33_AnchorWithinInterval ==
    \A p \in Calls :
        pc[p] \in PastGrowth =>
           /\ 0 <= loc[p].now - last_stress_update
           /\ loc[p].now - last_stress_update < stress_growth_interval

\* a call at clock value 60 has counted its tick and moved the anchor to 60,
\* while an earlier call, which captured 40, still is in its delay
C33_Witness ==
    \E p, q \in Calls :
        /\ pc[p] = "trigger" /\ loc[p].now = 60 /\ loc[p].stress_growth = 1
        /\ last_stress_update = 60
        /\ pc[q] = "sleeping" /\ loc[q].now = 40

\* C34: when the whole minutes elapsed would take the stress past 100, the growth
\* step sets the stress to 100, a rise of fewer points than ticks, and still moves
\* last_stress_update by 60 for every tick and reports every tick (with the
\* note); less than a minute then remains between the anchor and the clock, so no
\* later call counts these ticks again.
C34_ClampConsumesTicks ==
    [][\A p \in Calls :
          LET ticks == (clock - last_stress_update) \div stress_growth_interval
          IN  (Grows(p) /\ stress_level + ticks > max_stress) =>
                 /\ stress_level' = max_stress
                 /\ stress_level' - stress_level < ticks
                 /\ last_stress_update' = last_stress_update
                                             + ticks * stress_growth_interval
                 /\ loc'[p].stress_growth = ticks
                 /\ StressClimbingNote(loc'[p].stress_growth)
                 /\ ticks_reported' = ticks_reported + ticks
                 /\ clock - last_stress_update' < stress_growth_interval]_vars

\* fifty minutes after the state was created with stress 60: the call reports
\* 50 ticks, the stress rose by 40 and the anchor moved by 3000
C34_Witness ==
    \E p \in Calls :
        /\ pc[p] = "cooldown"
        /\ loc[p].stress_in = InitialStress
        /\ loc[p].stress_growth = 50
        /\ stress_level = max_stress
        /\ last_stress_update = committed.stress_anchor + 3000

\* C35: in a burst of N calls on a fresh state with P = 100, no cooldown interval
\* elapsing, the calls enter the critical section in the order in which they were
\* issued; the k-th finds the level at min(k - 1, 5) and reports min(k, 5); it is
\* delayed exactly if k >= 5, which makes max(0, N - 4) delayed calls; when all
\* N have left the critical section the level is min(5, N).
C35_NoLostIncrement ==
    [][\A p \in BurstCalls :
          /\ (pc[p] # "growth" /\ pc'[p] = "growth") =>
                \A q \in 1..(p - 1) : pc'[q] \in {"idle", "sleeping"}
          /\ Leaves(p) =>
                /\ loc[p].alert_in = Min(p - 1, max_boss_alert)
                /\ loc[p].cooldown_steps = 0
                /\ boss_alert_level' = Min(p, max_boss_alert)
                /\ \A roll \in Rolls :
                      BreakResult(p, MaybeRaiseBossAlert(boss_alert_level,
                          last_boss_cooldown_check, loc[p].now, roll)).current_boss
                         = Min(p, max_boss_alert)
                /\ pc'[p] = "sleeping" <=> p >= 5
                /\ (\A q \in BurstCalls \ {p} : pc[q] \in {"idle", "sleeping"}) =>
                      boss_alert_level' = Min(calls_issued, max_boss_alert)]_vars

\* six calls were issued: the fifth and the sixth sleep, the first four have
\* returned, and the level is 5
C35_Witness ==
    /\ calls_issued = 6
    /\ \A p \in 1..4 : pc[p] = "idle"
    /\ pc[5] = "sleeping" /\ pc[6] = "sleeping"
    /\ loc[5].current_boss = 5 /\ loc[6].current_boss = 5
    /\ loc[6].alert_in = 5
    /\ boss_alert_level = 5

C37_RecoveryNotPostponed ==
    [][/\ (boss_alert_level < max_boss_alert /\ boss_alert_level' = max_boss_alert) =>
             \E p \in Calls : Leaves(p) /\ last_boss_cooldown_check' = loc[p].now
       /\ (boss_alert_level = max_boss_alert /\ boss_alert_level' = max_boss_alert) =>
             last_boss_cooldown_check' = last_boss_cooldown_check
       /\ \A p \in Calls :
             (Cools(p) /\ boss_alert_level = max_boss_alert) =>
                IF loc[p].now >= last_boss_cooldown_check + boss_alertness_cooldown
                THEN /\ loc'[p].cooldown_steps >= 1
                     /\ boss_alert_level' < max_boss_alert
                ELSE /\ loc'[p].cooldown_steps = 0
                     /\ boss_alert_level' = max_boss_alert]_vars

\* the level was raised to 5 at clock value 0, with a cooldown of 40 s; a call at 20
\* left it there; the call at 40 has taken one level off
C37_Witness ==
    \E p \in Calls :
        /\ boss_alertness_cooldown = 40
        /\ pc[p] = "relief"
        /\ loc[p].alert_in = max_boss_alert
        /\ committed.cooldown_anchor = 0
        /\ loc[p].now = 40 /\ loc[p].gap = 20
        /\ loc[p].cooldown_steps = 1
        /\ boss_alert_level = 4

\* C38: under the cooperative scheduler the lock is never contended: no call ever
\* waits for it, the lock is free whenever a call can start, and at most one call
\* is inside the critical section; so every step of the calls with the lock is a
\* step of the calls without it, and a call that starts without the lock starts
\* as it does with it: the two reach the same gauge states and call results.
C38_LockNeverContended ==
    /\ [](/\ waiters = <<>>
          /\ \A p \in Calls : pc[p] # "waiting"
          /\ ~Running => LockFree
          /\ Cardinality({p \in Calls : pc[p] \in InCS}) <= 1)
    /\ [][NextNoLock]_vars
    /\ [][\A p \in Calls, name \in ToolNames :
             NoLockStart(p, name) <=> CoopStart(p, name)]_vars

\* calls overlap all the same: one is in its delay while the other is inside the
\* critical section, having taken the lock without waiting
C38_Witness ==
    \E p, q \in Calls :
        /\ pc[p] = "sleeping" /\ clock < loc[p].wake
        /\ pc[q] = "trigger" /\ holder = q
        /\ loc[q].start = loc[q].now
        /\ waiters = <<>>

====
